---- MODULE Spec2Model ----
(***************************************************************************)
(* Model of tools/validate-codeql-permissions.py: one run of               *)
(* validate_codeql_permissions() over a workflow directory.                *)
(*                                                                         *)
(* A workflow file is represented by what open() + yaml.safe_load() make   *)
(* of it: either the load raises, or it yields a Python value.  Python     *)
(* values are tagged records; the operators below give them the behaviour  *)
(* the script relies on (truthiness, the "in" operator, subscripting,      *)
(* isinstance(.., dict), dict.get, str.join).  Strings are sequences of    *)
(* tokens so that "x in s" is a real substring test.                       *)
(***************************************************************************)
EXTENDS Integers, Sequences, FiniteSets, TLC

VARIABLES dirExists, files, pc, idx, error_count, stderr, stdout, ret

vars == <<dirExists, files, pc, idx, error_count, stderr, stdout, ret>>

\* ------------------------------------------------------------------ bounds
MaxFiles == 2
MaxJobs == 2
MaxSteps == 2

\* ------------------------------------------------------- Python values
Absent == [t |-> "absent"]
PyNone == [t |-> "none"]
PyInt(n) == [t |-> "int", n |-> n]
PyStr(toks) == [t |-> "str", v |-> toks]
PyList(elems) == [t |-> "list", v |-> elems]

StepMap(uses) == [t |-> "map", uses |-> uses]
Perms(se) == [t |-> "map", se |-> se]
JobConfig(steps, perms) == [t |-> "map", steps |-> steps, permissions |-> perms]
JobsMap(items) == [t |-> "map", items |-> items]
Workflow(jobs, perms) == [t |-> "map", jobs |-> jobs, permissions |-> perms]

\* What open()/yaml.safe_load() raise instead of returning a value.
Unreadable == [t |-> "unreadable"]
Malformed == [t |-> "malformed"]

\* needle occurs in hay as a contiguous run of tokens (str.__contains__)
IsSubstr(needle, hay) ==
  \E i \in 1..(Len(hay) - Len(needle) + 1) :
     SubSeq(hay, i, i + Len(needle) - 1) = needle

\* Plain YAML scalars that PyYAML resolves to bool instead of str.
YamlBool == {"yes", "no", "on", "off", "true", "false"}
KeyIsStr(k) == k \notin YamlBool

\* The literals of the script.
TargetAction == <<"github/codeql-action/analyze">>
KeyJobs == <<"jobs">>
KeySteps == <<"steps">>
Write == PyStr(<<"write">>)

\* ------------------------------------------------------- line 34
\* bool(workflow)
Truthy(x) ==
  CASE x.t = "none" -> FALSE
    [] x.t = "int" -> x.n # 0
    [] x.t = "str" -> Len(x.v) > 0
    [] x.t = "list" -> Len(x.v) > 0
    [] x.t = "map" -> x.jobs.t # "absent" \/ x.permissions.t # "absent"

\* 'jobs' in workflow : "T", "F", or "raise" (TypeError: not iterable)
JobsIn(x) ==
  CASE x.t = "str" -> IF IsSubstr(KeyJobs, x.v) THEN "T" ELSE "F"
    [] x.t = "list" -> IF \E i \in 1..Len(x.v) : x.v[i] = PyStr(KeyJobs) THEN "T" ELSE "F"
    [] x.t = "map" -> IF x.jobs.t # "absent" THEN "T" ELSE "F"
    [] OTHER -> "raise"

\* if not workflow or 'jobs' not in workflow: continue
Guard34(x) ==
  IF ~Truthy(x) THEN "skip"
  ELSE CASE JobsIn(x) = "F" -> "skip"
         [] JobsIn(x) = "T" -> "go"
         [] OTHER -> "raise"

\* ------------------------------------------------------- lines 38-45
\* StepScan with the substring test of line 43 left out: any step with a
\* string 'uses' counts
StepScanAnyUses(step) ==
  IF step.t # "map" THEN "miss"
  ELSE IF step.uses.t = "absent" THEN "miss"
  ELSE IF step.uses.t \in {"str", "list"} THEN "hit"
  ELSE "raise"

\* one step: "hit" (append and break), "miss", or "raise"
StepScan(step) ==
  IF step.t # "map" THEN "miss"
  ELSE IF step.uses.t = "absent" THEN "miss"
  ELSE IF step.uses.t = "str"
       THEN IF IsSubstr(TargetAction, step.uses.v) THEN "hit" ELSE "miss"
  ELSE IF step.uses.t = "list"
       THEN IF \E i \in 1..Len(step.uses.v) : step.uses.v[i] = PyStr(TargetAction)
            THEN "hit" ELSE "miss"
  ELSE "raise"

RECURSIVE StepsScan(_, _)
StepsScan(steps, k) ==
  IF k > Len(steps) THEN "miss"
  ELSE LET r == StepScan(steps[k])
       IN IF r = "miss" THEN StepsScan(steps, k + 1) ELSE r

\* one job of the loop of line 39
JobScan(cfg) ==
  CASE cfg.t = "map" ->
         IF cfg.steps.t = "absent" THEN "miss"
         ELSE IF cfg.steps.t = "list" THEN StepsScan(cfg.steps.v, 1)
         ELSE IF cfg.steps.t = "str" THEN "miss"   \* its characters are not dicts
         ELSE "raise"
    [] cfg.t = "str" -> IF IsSubstr(KeySteps, cfg.v) THEN "raise" ELSE "miss"
    [] cfg.t = "list" ->
         IF \E i \in 1..Len(cfg.v) : cfg.v[i] = PyStr(KeySteps) THEN "raise" ELSE "miss"
    [] OTHER -> "raise"

\* the loop of lines 39-45 from item k on, codeql_jobs being acc so far
RECURSIVE DetectFrom(_, _, _)
DetectFrom(items, k, acc) ==
  IF k > Len(items) THEN [raised |-> FALSE, codeql_jobs |-> acc]
  ELSE LET r == JobScan(items[k].cfg)
       IN CASE r = "raise" -> [raised |-> TRUE, codeql_jobs |-> acc]
            [] r = "hit" -> DetectFrom(items, k + 1, Append(acc, items[k].key))
            [] OTHER -> DetectFrom(items, k + 1, acc)

\* workflow['jobs'].items() raises unless workflow and workflow['jobs'] are dicts
Detect(workflow) ==
  IF workflow.t = "map" /\ workflow.jobs.t = "map"
  THEN DetectFrom(workflow.jobs.items, 1, <<>>)
  ELSE [raised |-> TRUE, codeql_jobs |-> <<>>]

\* ------------------------------------------------------- lines 50-51
\* ', '.join(codeql_jobs) raises TypeError on an item that is not a str
JoinRaises(codeql_jobs) == \E i \in 1..Len(codeql_jobs) : ~KeyIsStr(codeql_jobs[i])

\* ------------------------------------------------------- messages
Msg(kind, file, jobs, n) ==
  [kind |-> kind, file |-> file, jobs |-> jobs, n |-> n]

\* ------------------------------------------------------- lines 54-59
\* d.get('permissions', {})
GetPermissions(d) == IF d.permissions.t = "absent" THEN Perms(Absent) ELSE d.permissions

RootViolation(workflow) ==
  LET root_permissions == GetPermissions(workflow)
  IN root_permissions.t = "map" /\ root_permissions.se.t # "absent"
     /\ root_permissions.se = Write

RootErr(f, workflow) ==
  IF RootViolation(workflow)
  THEN <<Msg("root_write", f, <<>>, 0), Msg("root_hint", f, <<>>, 0)>>
  ELSE <<>>

RootInc(workflow) == IF RootViolation(workflow) THEN 1 ELSE 0

\* ------------------------------------------------------- lines 62-78
JobVerdict(job_config) ==
  LET job_permissions == GetPermissions(job_config)
  IN IF job_permissions.t # "map" THEN "invalid_format"
     ELSE IF job_permissions.se.t = "absent" THEN "missing"
     ELSE IF job_permissions.se # Write THEN "wrong_value"
     ELSE "ok"

\* workflow['jobs'][job_name]
ConfigOf(workflow, job_name) ==
  LET items == workflow.jobs.items
      i == CHOOSE i \in 1..Len(items) : items[i].key = job_name
  IN items[i].cfg

\* JobErr with the print of line 75 left out
JobErrWrongValueSilent(f, workflow, job_name) ==
  LET v == JobVerdict(ConfigOf(workflow, job_name))
  IN IF v \in {"ok", "wrong_value"} THEN <<>> ELSE <<Msg(v, f, <<job_name>>, 0)>>

JobErr(f, workflow, job_name) ==
  LET v == JobVerdict(ConfigOf(workflow, job_name))
  IN IF v = "ok" THEN <<>> ELSE <<Msg(v, f, <<job_name>>, 0)>>

JobOut(f, workflow, job_name) ==
  IF JobVerdict(ConfigOf(workflow, job_name)) = "ok"
  THEN <<Msg("job_ok", f, <<job_name>>, 0)>>
  ELSE <<>>

\* JobInc with the continue of line 69 left out: the substring test of
\* line 71 on the non-mapping value counts the job a second time
JobIncFallThrough(workflow, job_name) ==
  LET v == JobVerdict(ConfigOf(workflow, job_name))
  IN IF v = "ok" THEN 0 ELSE IF v = "invalid_format" THEN 2 ELSE 1

JobInc(workflow, job_name) ==
  IF JobVerdict(ConfigOf(workflow, job_name)) = "ok" THEN 0 ELSE 1

RECURSIVE JobsErr(_, _, _, _)
JobsErr(f, workflow, codeql_jobs, k) ==
  IF k > Len(codeql_jobs) THEN <<>>
  ELSE JobErr(f, workflow, codeql_jobs[k]) \o JobsErr(f, workflow, codeql_jobs, k + 1)

RECURSIVE JobsOut(_, _, _, _)
JobsOut(f, workflow, codeql_jobs, k) ==
  IF k > Len(codeql_jobs) THEN <<>>
  ELSE JobOut(f, workflow, codeql_jobs[k]) \o JobsOut(f, workflow, codeql_jobs, k + 1)

RECURSIVE JobsInc(_, _, _)
JobsInc(workflow, codeql_jobs, k) ==
  IF k > Len(codeql_jobs) THEN 0
  ELSE JobInc(workflow, codeql_jobs[k]) + JobsInc(workflow, codeql_jobs, k + 1)

\* ------------------------------------------------------- lines 80-85
ParseFailure(f) == [err |-> <<Msg("parse_failed", f, <<>>, 0)>>, out |-> <<>>, inc |-> 1]
ProcessFailure(f) == [err |-> <<Msg("process_failed", f, <<>>, 0)>>, out |-> <<>>, inc |-> 1]
Silent == [err |-> <<>>, out |-> <<>>, inc |-> 0]

\* lines 50-78: the file has CodeQL jobs
Checked(f, workflow, codeql_jobs) ==
  [err |-> RootErr(f, workflow) \o JobsErr(f, workflow, codeql_jobs, 1),
   out |-> <<Msg("found", f, <<>>, 0), Msg("jobs_using", f, codeql_jobs, 0)>>
           \o JobsOut(f, workflow, codeql_jobs, 1),
   inc |-> RootInc(workflow) + JobsInc(workflow, codeql_jobs, 1)]

\* lines 30-85: the way one iteration of the loop leaves the try block
Outcome(file) ==
  CASE file.t = "malformed" -> "YAMLError"
    [] file.t = "unreadable" -> "Exception"
    [] OTHER ->
       LET g == Guard34(file)
       IN CASE g = "skip" -> "continue34"
            [] g = "raise" -> "Exception"
            [] OTHER ->
               LET d == Detect(file)
               IN IF d.raised THEN "Exception"
                  ELSE IF d.codeql_jobs = <<>> THEN "continue48"
                  ELSE IF JoinRaises(d.codeql_jobs) THEN "ExceptionAt51"
                  ELSE "checked"

\* lines 30-85: one iteration of the loop over workflow_files; what it
\* prints to each stream and what it adds to error_count
Iteration(f, file) ==
  LET o == Outcome(file)
  IN CASE o = "YAMLError" -> ParseFailure(f)
       [] o = "Exception" -> ProcessFailure(f)
       [] o = "ExceptionAt51" ->
            [err |-> ProcessFailure(f).err,
             out |-> <<Msg("found", f, <<>>, 0)>>,
             inc |-> 1]
       [] o = "checked" -> Checked(f, file, Detect(file).codeql_jobs)
       [] OTHER -> Silent

\* ------------------------------------------------------- sample files
RECURSIVE SeqsOfLen(_, _)
SeqsOfLen(S, n) ==
  IF n = 0 THEN {<<>>}
  ELSE {Append(s, x) : s \in SeqsOfLen(S, n - 1), x \in S}

SeqsUpTo(S, n) == UNION {SeqsOfLen(S, k) : k \in 0..n}

UsesAnalyze == PyStr(<<"github/codeql-action/analyze", "@v3">>)
UsesInit == PyStr(<<"github/codeql-action/init", "@v3">>)
Read == PyStr(<<"read">>)
WriteAll == PyStr(<<"write", "-all">>)

StepShapes ==
  {PyStr(<<"checkout">>), StepMap(Absent), StepMap(PyNone), StepMap(UsesInit),
   StepMap(UsesAnalyze)}

PermShapes == {Absent, WriteAll, Perms(Absent), Perms(Write), Perms(Read)}

JobKeys == <<"analyze", "build", "yes">>

\* the subsequences of JobKeys of n keys, as sets of positions
KeySets(n) == {K \in SUBSET (1..Len(JobKeys)) : Cardinality(K) = n}

RECURSIVE SortedFrom(_, _)
SortedFrom(K, lo) ==
  IF K = {} THEN <<>>
  ELSE IF lo \in K THEN <<JobKeys[lo]>> \o SortedFrom(K \ {lo}, lo + 1)
  ELSE SortedFrom(K, lo + 1)

KeySeqs(n) == UNION {{SortedFrom(K, 1) : K \in KeySets(m)} : m \in 0..n}

\* the jobs mappings with the keys ks (a sequence) and configs from C
ItemsOver(ks, C) ==
  {[i \in 1..Len(ks) |-> [key |-> ks[i], cfg |-> cs[i]]] : cs \in SeqsOfLen(C, Len(ks))}

\* files that vary in shape: every kind of document, job config and step
ShapeConfigs ==
  {PyNone, PyStr(<<"todo">>), PyStr(<<"no ", "steps">>), PyList(<<PyStr(KeySteps)>>)}
  \cup {JobConfig(s, p) :
          s \in {Absent, PyNone, PyStr(<<"todo">>)}
                \cup {PyList(l) : l \in SeqsUpTo(StepShapes, MaxSteps)},
          p \in {Absent, Perms(Write)}}

ShapeFiles ==
  {Unreadable, Malformed, PyNone, PyInt(0), PyInt(42),
   PyStr(<<>>), PyStr(<<"hello">>), PyStr(<<"my ", "jobs">>),
   PyList(<<>>), PyList(<<PyStr(<<"a">>)>>), PyList(<<PyStr(KeyJobs)>>)}
  \cup {Workflow(j, p) :
          j \in {Absent, PyNone, PyList(<<>>)}
                \cup UNION {{JobsMap(it) : it \in ItemsOver(ks, ShapeConfigs)} : ks \in KeySeqs(1)},
          p \in {Absent, Perms(Write)}}

\* files that vary in permissions: jobs that use or do not use the action
PermConfigs ==
  {JobConfig(PyList(l), p) :
     l \in {<<StepMap(UsesAnalyze)>>,
            <<StepMap(UsesAnalyze), StepMap(UsesAnalyze)>>,
            <<StepMap(Absent), StepMap(UsesAnalyze)>>,
            <<StepMap(UsesInit)>>},
     p \in PermShapes}

PermFiles ==
  {Workflow(JobsMap(it), p) :
     it \in UNION {ItemsOver(ks, PermConfigs) : ks \in KeySeqs(MaxJobs)},
     p \in PermShapes}

Job(key, uses, perms) ==
  [key |-> key, cfg |-> JobConfig(PyList(<<StepMap(uses)>>), perms)]

\* files of a run over several files
RunFiles ==
  {Unreadable, Malformed, PyNone, PyInt(42),
   Workflow(Absent, Perms(Write)),
   Workflow(PyNone, Absent),
   Workflow(JobsMap(<<Job("build", UsesInit, Absent)>>), Perms(Write)),
   Workflow(JobsMap(<<Job("analyze", UsesAnalyze, Perms(Write))>>), Absent),
   Workflow(JobsMap(<<Job("analyze", UsesAnalyze, Perms(Absent))>>), Perms(Write)),
   Workflow(JobsMap(<<Job("build", UsesAnalyze, WriteAll),
                      Job("analyze", UsesAnalyze, Perms(Read))>>), Perms(Read)),
   Workflow(JobsMap(<<Job("yes", UsesAnalyze, Perms(Absent))>>), Perms(Write))}

\* ------------------------------------------------------- the run
Init ==
  /\ \/ dirExists = FALSE /\ files = <<>>
     \/ /\ dirExists = TRUE
        /\ files \in SeqsUpTo(RunFiles, MaxFiles)
                     \cup {<<d>> : d \in ShapeFiles \cup PermFiles}
  /\ pc = "start"
  /\ idx = 1
  /\ error_count = 0
  /\ stderr = <<>>
  /\ stdout = <<>>
  /\ ret = -1

\* DirectoryMissing with the return of line 24 left out
DirectoryMissingFallsThrough ==
  /\ pc = "start"
  /\ ~dirExists
  /\ stderr' = Append(stderr, Msg("dir_not_found", 0, <<>>, 0))
  /\ pc' = "loop"
  /\ UNCHANGED <<dirExists, files, idx, error_count, stdout, ret>>

\* lines 22-24
DirectoryMissing ==
  /\ pc = "start"
  /\ ~dirExists
  /\ stderr' = Append(stderr, Msg("dir_not_found", 0, <<>>, 0))
  /\ ret' = 1
  /\ pc' = "done"
  /\ UNCHANGED <<dirExists, files, idx, error_count, stdout>>

\* lines 19-27
Discover ==
  /\ pc = "start"
  /\ dirExists
  /\ pc' = "loop"
  /\ UNCHANGED <<dirExists, files, idx, error_count, stderr, stdout, ret>>

\* ProcessFile whose except clauses leave the loop
ProcessFileBreakOnFailure ==
  /\ pc = "loop"
  /\ idx <= Len(files)
  /\ LET r == Iteration(idx, files[idx])
     IN /\ stderr' = stderr \o r.err
        /\ stdout' = stdout \o r.out
        /\ error_count' = error_count + r.inc
        /\ idx' = IF \E k \in 1..Len(r.err) : r.err[k].kind \in {"parse_failed", "process_failed"}
                  THEN Len(files) + 1 ELSE idx + 1
  /\ UNCHANGED <<dirExists, files, pc, ret>>

\* lines 29-85, one workflow_file
ProcessFile ==
  /\ pc = "loop"
  /\ idx <= Len(files)
  /\ LET r == Iteration(idx, files[idx])
     IN /\ stderr' = stderr \o r.err
        /\ stdout' = stdout \o r.out
        /\ error_count' = error_count + r.inc
  /\ idx' = idx + 1
  /\ UNCHANGED <<dirExists, files, pc, ret>>

\* Report returning a clamped status
ReportClamped ==
  /\ pc = "loop"
  /\ idx > Len(files)
  /\ IF error_count = 0
     THEN /\ stdout' = Append(stdout, Msg("all_ok", 0, <<>>, 0))
          /\ UNCHANGED stderr
     ELSE /\ stderr' = Append(stderr, Msg("summary", 0, <<>>, error_count))
          /\ UNCHANGED stdout
  /\ ret' = IF error_count = 0 THEN 0 ELSE 1
  /\ pc' = "done"
  /\ UNCHANGED <<dirExists, files, idx, error_count>>

\* lines 87-92
Report ==
  /\ pc = "loop"
  /\ idx > Len(files)
  /\ IF error_count = 0
     THEN /\ stdout' = Append(stdout, Msg("all_ok", 0, <<>>, 0))
          /\ UNCHANGED stderr
     ELSE /\ stderr' = Append(stderr, Msg("summary", 0, <<>>, error_count))
          /\ UNCHANGED stdout
  /\ ret' = error_count
  /\ pc' = "done"
  /\ UNCHANGED <<dirExists, files, idx, error_count>>

Next == DirectoryMissing \/ Discover \/ ProcessFile \/ Report

Spec == Init /\ [][Next]_vars

\* ------------------------------------------------------- vocabulary of the properties
\* Diagnostics are the messages printed where error_count is incremented.
FailureKinds == {"parse_failed", "process_failed"}
RuleKinds == {"root_write", "invalid_format", "missing", "wrong_value"}
DiagKinds == FailureKinds \cup RuleKinds

\* the indices of the messages of a stream that satisfy a condition
ErrIdx(i) == {k \in 1..Len(stderr) : stderr[k].file = i}
OutIdx(i) == {k \in 1..Len(stdout) : stdout[k].file = i}
DiagIdx(i) == {k \in ErrIdx(i) : stderr[k].kind \in DiagKinds}
AllDiagIdx == {k \in 1..Len(stderr) : stderr[k].kind \in DiagKinds}
JobDiagIdx(i, j) == {k \in DiagIdx(i) : stderr[k].jobs = <<j>>}

\* the files whose iteration is over
Processed == 1..(idx - 1)

Loaded(file) == file.t \notin {"unreadable", "malformed"}

\* A step references the target action; a job is relevant; read off the
\* document, not off the script's traversal.
StepReferences(step) ==
  /\ step.t = "map"
  /\ \/ step.uses.t = "str" /\ IsSubstr(TargetAction, step.uses.v)
     \/ step.uses.t = "list" /\ \E k \in 1..Len(step.uses.v) : step.uses.v[k] = PyStr(TargetAction)

JobRelevant(cfg) ==
  /\ cfg.t = "map"
  /\ cfg.steps.t = "list"
  /\ \E k \in 1..Len(cfg.steps.v) : StepReferences(cfg.steps.v[k])

HasJobs(file) == file.t = "map" /\ file.jobs.t # "absent"

RelevantItems(file) ==
  IF HasJobs(file) /\ file.jobs.t = "map"
  THEN {k \in 1..Len(file.jobs.items) : JobRelevant(file.jobs.items[k].cfg)}
  ELSE {}

\* The shapes the traversal of lines 39-45 goes through without raising.
StepWellShaped(step) == step.t # "map" \/ step.uses.t \in {"absent", "str", "list"}

JobWellShaped(cfg) ==
  \/ /\ cfg.t = "map"
     /\ \/ cfg.steps.t \in {"absent", "str"}
        \/ /\ cfg.steps.t = "list"
           /\ \A k \in 1..Len(cfg.steps.v) : StepWellShaped(cfg.steps.v[k])
  \/ cfg.t = "str" /\ ~IsSubstr(KeySteps, cfg.v)
  \/ cfg.t = "list" /\ \A k \in 1..Len(cfg.v) : cfg.v[k] # PyStr(KeySteps)

JobsWellShaped(file) ==
  /\ file.jobs.t = "map"
  /\ \A k \in 1..Len(file.jobs.items) : JobWellShaped(file.jobs.items[k].cfg)

\* the job-level permissions do not contain the key
LacksSecurityEvents(cfg) ==
  \/ cfg.permissions.t = "absent"
  \/ cfg.permissions.t = "map" /\ cfg.permissions.se.t = "absent"

HasSecurityEventsWrite(perms) ==
  perms.t = "map" /\ perms.se = PyStr(<<"write">>)

\* the messages of file i, without the file name
Anon(stream, i) ==
  LET own == SelectSeq(stream, LAMBDA m : m.file = i)
  IN [k \in 1..Len(own) |-> [own[k] EXCEPT !.file = 0]]

\* the iteration over the file raised (any except clause ran)
Failed(i) == \E k \in ErrIdx(i) : stderr[k].kind \in FailureKinds

\* ------------------------------------------------------- properties

\* C1: whenever the workflow directory exists, the value returned at
\* termination (the exit status) equals the total number of diagnostics
\* recorded over all files, with no cap; it is 0 exactly when no diagnostic
\* was recorded.
C1_ExitStatusIsDiagnosticCount ==
  (pc = "done" /\ dirExists) =>
     /\ ret = Cardinality(AllDiagIdx)
     /\ (ret = 0 <=> AllDiagIdx = {})

C1_Witness == pc = "done" /\ dirExists /\ ret >= 3 /\ Cardinality(AllDiagIdx) >= 3

\* C7: a file that fails to parse, or whose processing raises any other
\* exception, produces exactly one diagnostic for that file and does not end
\* the run: every file of the list is processed, each with the output its
\* content alone determines, and the summary and exit status are produced.
\* Only the missing directory ends the run early.
C7_FailureIsLocalToItsFile ==
  /\ \A i \in Processed :
       /\ Outcome(files[i]) = "YAMLError" =>
            /\ Cardinality(ErrIdx(i)) = 1
            /\ \A k \in ErrIdx(i) : stderr[k].kind = "parse_failed"
       /\ Outcome(files[i]) \in {"Exception", "ExceptionAt51"} =>
            /\ Cardinality(ErrIdx(i)) = 1
            /\ \A k \in ErrIdx(i) : stderr[k].kind = "process_failed"
  /\ (pc = "done" /\ dirExists) =>
       /\ Processed = 1..Len(files)
       /\ \A i, j \in 1..Len(files) :
            files[i] = files[j] =>
               /\ Anon(stderr, i) = Anon(stderr, j)
               /\ Anon(stdout, i) = Anon(stdout, j)
       /\ ret = error_count
       /\ \/ error_count = 0 /\ Len(stdout) > 0 /\ stdout[Len(stdout)].kind = "all_ok"
          \/ error_count > 0 /\ Len(stderr) > 0 /\ stderr[Len(stderr)].kind = "summary"
  /\ (pc = "done" /\ idx <= Len(files)) => ~dirExists

C7_Witness ==
  /\ pc = "done"
  /\ Len(files) = 2
  /\ Outcome(files[1]) = "YAMLError"
  /\ Outcome(files[2]) = "checked"
  /\ Cardinality(DiagIdx(1)) = 1
  /\ OutIdx(2) # {}
  /\ ret = error_count

\* C8: if the workflow directory does not exist, the run emits one error and
\* terminates with exit status exactly 1 before any file is discovered,
\* parsed or checked; neither the success line nor the summary is emitted.
C8_MissingDirectoryIsFatal ==
  ~dirExists =>
     /\ pc \in {"start", "done"}
     /\ idx = 1
     /\ error_count = 0
     /\ stdout = <<>>
     /\ pc = "start" => stderr = <<>> /\ ret = -1
     /\ pc = "done" => /\ ret = 1
                       /\ Len(stderr) = 1
                       /\ stderr[1].kind = "dir_not_found"

C8_Witness == ~dirExists /\ pc = "done" /\ ret = 1

\* C9 as stated: at the end of a run over an existing directory, the number
\* of lines on the error stream equals the error count, plus one summary
\* line when the error count is nonzero (each print taken as one line).
C9_OneLinePerDiagnostic ==
  (pc = "done" /\ dirExists) =>
     Len(stderr) = error_count + (IF error_count # 0 THEN 1 ELSE 0)

\* C9 amended: at the end of a run over an existing directory, the number of
\* messages printed to the error stream equals the error count, plus one hint
\* message for each root-level violation, plus one summary when the error
\* count is nonzero: every diagnostic is one message, the root-level
\* violation is followed by a second message, nothing else is printed there.
C9_MessagesPerDiagnostic ==
  (pc = "done" /\ dirExists) =>
     LET roots == {k \in 1..Len(stderr) : stderr[k].kind = "root_write"}
     IN /\ error_count = Cardinality(AllDiagIdx)
        /\ Len(stderr) = error_count + Cardinality(roots)
                         + (IF error_count # 0 THEN 1 ELSE 0)
        /\ \A k \in 1..Len(stderr) :
             /\ stderr[k].kind \in DiagKinds \cup {"root_hint", "summary"}
             /\ stderr[k].kind = "root_hint" <=> (k > 1 /\ stderr[k - 1].kind = "root_write")
             /\ stderr[k].kind = "summary" <=> (k = Len(stderr) /\ error_count # 0)

C9_Witness ==
  /\ pc = "done"
  /\ dirExists
  /\ \E k \in 1..Len(stderr) : stderr[k].kind = "root_write"
  /\ \E k \in 1..Len(stderr) : stderr[k].kind = "wrong_value"
  /\ Len(stderr) = error_count + 2

\* C10: for every file the error count increases by at most 1 + (number of
\* relevant jobs of the file); a failure diagnostic never coexists with a
\* rule diagnostic of the same file, a failing file contributes exactly one
\* diagnostic; the error count never decreases.
C10_PerFileBound ==
  [][ /\ error_count' >= error_count
      /\ idx' # idx =>
           LET d == error_count' - error_count
               new == SubSeq(stderr', Len(stderr) + 1, Len(stderr'))
               failures == {k \in 1..Len(new) : new[k].kind \in FailureKinds}
               rules == {k \in 1..Len(new) : new[k].kind \in RuleKinds}
           IN /\ d <= 1 + Cardinality(RelevantItems(files[idx]))
              /\ d = Cardinality(failures) + Cardinality(rules)
              /\ failures # {} => (rules = {} /\ d = 1)
    ]_vars

C10_Witness ==
  /\ idx = 2
  /\ Cardinality(RelevantItems(files[1])) = 2
  /\ error_count = 3
  /\ Cardinality(DiagIdx(1)) = 3

C3_NonWorkflowDocumentSkipped ==
  /\ error_count = Cardinality(AllDiagIdx)
  /\ \A i \in Processed :
       (Loaded(files[i]) /\ ~HasJobs(files[i])) => (ErrIdx(i) = {} /\ OutIdx(i) = {})

\* C4, for well-shaped workflows: every relevant job whose job-level
\* permissions do not contain 'security-events' gets exactly one diagnostic,
\* the missing-permission one, and the error count grows by one for it.
C4_MissingPermissionOneDiagnostic ==
  /\ error_count = Cardinality(AllDiagIdx)
  /\ \A i \in Processed :
       (HasJobs(files[i]) /\ JobsWellShaped(files[i])) =>
          \A k \in RelevantItems(files[i]) :
             LET job == files[i].jobs.items[k]
             IN LacksSecurityEvents(job.cfg) =>
                  /\ Cardinality(JobDiagIdx(i, job.key)) = 1
                  /\ \A m \in JobDiagIdx(i, job.key) : stderr[m].kind = "missing"

\* C5, for well-shaped workflows: every relevant job whose job-level
\* permissions have security-events: write, in a workflow whose root-level
\* permissions do not declare security-events: write, gets no diagnostic,
\* only the informational OK line, whatever the other jobs and files hold.
C5_CorrectJobOnlyOkLine ==
  \A i \in Processed :
     (/\ HasJobs(files[i])
      /\ JobsWellShaped(files[i])
      /\ ~HasSecurityEventsWrite(files[i].permissions)) =>
        \A k \in RelevantItems(files[i]) :
           LET job == files[i].jobs.items[k]
           IN HasSecurityEventsWrite(job.cfg.permissions) =>
                /\ JobDiagIdx(i, job.key) = {}
                /\ \E m \in OutIdx(i) :
                      stdout[m].kind = "job_ok" /\ stdout[m].jobs = <<job.key>>

\* C6, for well-shaped workflows with at least one relevant job: the
\* root-level rule yields exactly one diagnostic if and only if the root
\* permissions are a mapping with security-events equal to write, none
\* otherwise, independently of the per-job diagnostics.
C6_RootRuleIffWrite ==
  \A i \in Processed :
     (/\ HasJobs(files[i])
      /\ JobsWellShaped(files[i])
      /\ RelevantItems(files[i]) # {}) =>
        Cardinality({m \in DiagIdx(i) : stderr[m].kind = "root_write"})
          = (IF HasSecurityEventsWrite(files[i].permissions) THEN 1 ELSE 0)

====
